---------------------------- MODULE Spec2Model ----------------------------
(***************************************************************************)
(* Model of the Groq chat-completion client (lib/groq) and of the chat     *)
(* endpoint (app/api/chat/route.ts).                                       *)
(*                                                                         *)
(* One call chain is modelled at a time: a caller enters through the POST  *)
(* handler, through generateGroqResponse or through                        *)
(* createGroqChatCompletion directly.  Every await of the code is a        *)
(* position of the chain (pc); the code that runs between two awaits is    *)
(* one action.  Texts are sequences of characters.                         *)
(***************************************************************************)
EXTENDS Integers, Sequences, FiniteSets, TLC

(***************************************************************************)
(* Bounds of the model.                                                    *)
(***************************************************************************)
MaxRetriesBound == 4     \* options.maxRetries ranges over -1 .. MaxRetriesBound
MaxContentLen   == 1     \* length of the generated answers of the upstream
MaxTextLen      == 3     \* length of the texts given to the post-processing

(***************************************************************************)
(* Program constants.                                                      *)
(***************************************************************************)
DEFAULT_TIMEOUT_MS  == 12000
DEFAULT_MAX_RETRIES == 2
RETRY_BACKOFF_MS    == <<250, 500, 1000>>

(***************************************************************************)
(* Characters and texts.  BULLET stands for the glyph U+2022.              *)
(***************************************************************************)
STAR   == "*"
BULLET == "U+2022"
SPACE  == " "
Alphabet == {STAR, BULLET, SPACE, "a"}

RECURSIVE TextsUpTo(_)
TextsUpTo(n) ==
    IF n = 0 THEN {<<>>}
    ELSE LET shorter == TextsUpTo(n - 1)
         IN  shorter \cup {Append(t, c) : t \in {s \in shorter : Len(s) = n - 1},
                                          c \in Alphabet}

\* "Bitcoin is *digital* **gold**"
BitcoinContent ==
    <<"B","i","t","c","o","i","n",SPACE,"i","s",SPACE,
      STAR,"d","i","g","i","t","a","l",STAR,SPACE,
      STAR,STAR,"g","o","l","d",STAR,STAR>>

\* "Bitcoin is <bullet>digital gold", the text of the specification's example
BitcoinSpecText ==
    <<"B","i","t","c","o","i","n",SPACE,"i","s",SPACE,
      BULLET,"d","i","g","i","t","a","l",SPACE,"g","o","l","d">>

\* "Bitcoin is <bullet>digital<bullet> gold"
BitcoinCodeText ==
    <<"B","i","t","c","o","i","n",SPACE,"i","s",SPACE,
      BULLET,"d","i","g","i","t","a","l",BULLET,SPACE,"g","o","l","d">>

\* String.prototype.trim over the alphabet (SPACE is its only white space)
RECURSIVE TrimStart(_)
TrimStart(t) ==
    IF t # <<>> /\ Head(t) = SPACE THEN TrimStart(Tail(t)) ELSE t

RECURSIVE TrimEnd(_)
TrimEnd(t) ==
    IF t # <<>> /\ t[Len(t)] = SPACE THEN TrimEnd(SubSeq(t, 1, Len(t) - 1)) ELSE t

Trim(t) == TrimEnd(TrimStart(t))

\* a replace without the g flag: only the first "**" is removed
RECURSIVE RemoveFirstDoubleStar(_)
RemoveFirstDoubleStar(t) ==
    IF t = <<>> THEN <<>>
    ELSE IF Len(t) >= 2 /\ t[1] = STAR /\ t[2] = STAR
         THEN SubSeq(t, 3, Len(t))
         ELSE <<Head(t)>> \o RemoveFirstDoubleStar(Tail(t))

\* .replace(/\*\*/g, ""): leftmost, non-overlapping matches of "**" are removed
RECURSIVE RemoveDoubleStars(_)
RemoveDoubleStars(t) ==
    IF t = <<>> THEN <<>>
    ELSE IF Len(t) >= 2 /\ t[1] = STAR /\ t[2] = STAR
         THEN RemoveDoubleStars(SubSeq(t, 3, Len(t)))
         ELSE <<Head(t)>> \o RemoveDoubleStars(Tail(t))

\* a replace without the g flag: only the first "*" becomes a bullet
RECURSIVE ReplaceFirstStar(_)
ReplaceFirstStar(t) ==
    IF t = <<>> THEN <<>>
    ELSE IF Head(t) = STAR THEN <<BULLET>> \o Tail(t)
         ELSE <<Head(t)>> \o ReplaceFirstStar(Tail(t))

\* .replace(/\*/g, "<bullet>")
ReplaceStars(t) == [i \in 1..Len(t) |-> IF t[i] = STAR THEN BULLET ELSE t[i]]

\* the cleanedResponse expression of the POST handler
Sanitize(t) == Trim(ReplaceStars(RemoveDoubleStars(t)))


(***************************************************************************)
(* GroqError objects.  `cls` is the runtime class of a thrown value        *)
(* ("GroqError", "Error" for any other Error, "undefined" for no value);   *)
(* `at` is the identity of the object: the loop index of the attempt that  *)
(* constructed it (NoAttempt outside the loop).                            *)
(***************************************************************************)
NoStatus  == 0        \* status?: number left undefined
NoAttempt == -1

ErrorTypes ==
    {"CONFIG", "TIMEOUT", "NETWORK", "RATE_LIMIT", "UPSTREAM", "INVALID_RESPONSE", "UNKNOWN"}

Msg(fmt, arg) == [fmt |-> fmt, arg |-> arg]

GroqError(type, message, status, retriable, details) ==
    [cls |-> "GroqError", type |-> type, status |-> status, retriable |-> retriable,
     details |-> details, message |-> message, at |-> NoAttempt]

\* a thrown value that is an Error but no GroqError (SyntaxError, TypeError)
PlainError(message) ==
    [cls |-> "Error", type |-> "none", status |-> NoStatus, retriable |-> FALSE,
     details |-> "undefined", message |-> message, at |-> NoAttempt]

\* let lastError: unknown, never assigned
Undefined ==
    [cls |-> "undefined", type |-> "none", status |-> NoStatus, retriable |-> FALSE,
     details |-> "undefined", message |-> Msg("", 0), at |-> NoAttempt]

ConstructedAt(e, a) == [e EXCEPT !.at = a]

(***************************************************************************)
(* Process-wide configuration: the value of process.env.GROQ_API_KEY.      *)
(***************************************************************************)
Unset     == "<unset>"
EnvValues == {Unset, "", "key1", "key2"}

\* a test for undefined alone, which lets the empty string through
KeyMissingUnsetOnly(v) == v = Unset

\* if (!apiKey) of getApiKey
KeyMissing(v) == v = Unset \/ v = ""

getApiKeyError ==
    GroqError("CONFIG", Msg("GROQ_API_KEY is not configured", 0), NoStatus, FALSE, "undefined")

(***************************************************************************)
(* classifyHttpError(status, details)                                      *)
(***************************************************************************)
\* a classification that also retries client errors (status >= 400)
classifyHttpErrorLoose(status, details) ==
    IF status = 401 \/ status = 403
    THEN GroqError("CONFIG", Msg("Groq authentication failed (check GROQ_API_KEY)", 0),
                   status, FALSE, details)
    ELSE IF status = 429
    THEN GroqError("RATE_LIMIT", Msg("Groq rate limit reached", 0), status, TRUE, details)
    ELSE IF status >= 400 /\ status <= 599
    THEN GroqError("UPSTREAM", Msg("Groq upstream error", status), status, TRUE, details)
    ELSE GroqError("UPSTREAM", Msg("Groq request failed", status), status, FALSE, details)

classifyHttpError(status, details) ==
    IF status = 401 \/ status = 403
    THEN GroqError("CONFIG", Msg("Groq authentication failed (check GROQ_API_KEY)", 0),
                   status, FALSE, details)
    ELSE IF status = 429
    THEN GroqError("RATE_LIMIT", Msg("Groq rate limit reached", 0), status, TRUE, details)
    ELSE IF status >= 500 /\ status <= 599
    THEN GroqError("UPSTREAM", Msg("Groq upstream error", status), status, TRUE, details)
    ELSE GroqError("UPSTREAM", Msg("Groq request failed", status), status, FALSE, details)

\* the two errors of fetchWithTimeout
TimeoutError(ms) ==
    GroqError("TIMEOUT", Msg("Groq request timed out after ms", ms), NoStatus, TRUE, "undefined")

NetworkError ==
    GroqError("NETWORK", Msg("fetch failed", 0), NoStatus, TRUE, "undefined")

\* a shape error marked retriable ad hoc
InvalidShapeErrorRetriable ==
    GroqError("INVALID_RESPONSE", Msg("Invalid response shape from Groq", 0), NoStatus, TRUE, "data")

\* the shape check of the success body
InvalidShapeError ==
    GroqError("INVALID_RESPONSE", Msg("Invalid response shape from Groq", 0), NoStatus, FALSE, "data")

\* the wrapper thrown after the loop when lastError is no GroqError
UnknownError(le) ==
    GroqError("UNKNOWN",
              IF le.cls = "Error" THEN le.message ELSE Msg("Unknown Groq error", 0),
              NoStatus, FALSE, "lastError")

\* the empty-answer error of generateGroqResponse
EmptyResponseError ==
    GroqError("INVALID_RESPONSE", Msg("Groq returned an empty response", 0), NoStatus, FALSE,
              "completion")

(***************************************************************************)
(* The upstream: HTTP statuses and bodies it may answer with.              *)
(***************************************************************************)
OkStatuses  == {200, 201}
ErrStatuses == {302, 400, 401, 403, 404, 429, 499, 500, 503, 599}

\* res.ok
ResOk(status) == status >= 200 /\ status <= 299

NullContent == [isNull |-> TRUE, text |-> <<>>]
TextContent(t) == [isNull |-> FALSE, text |-> t]

Contents ==
    {NullContent} \cup {TextContent(t) : t \in TextsUpTo(MaxContentLen) \cup {BitcoinContent}}

\* a parsed body: its JSON shape, and its choices when they are an array
Body(shape, choices) == [shape |-> shape, choices |-> choices]

NoData == Body("none", <<>>)

SuccessBodies ==
    {Body(s, <<>>) : s \in {"null", "scalar", "objectWithoutChoices", "choicesNotArray"}}
    \cup {Body("completion", <<>>)}
    \cup {Body("completion", <<[content |-> c]>>) : c \in Contents}

\* the condition of the shape check, lines 213-218
InvalidShape(data) == data.shape # "completion"

(***************************************************************************)
(* The retry policy.                                                       *)
(***************************************************************************)
Min(a, b) == IF a < b THEN a ELSE b

\* the schedule indexed by the 1-based number of the attempt
BackoffMsOneBased(a) == RETRY_BACKOFF_MS[Min(a + 1, Len(RETRY_BACKOFF_MS) - 1) + 1]

\* RETRY_BACKOFF_MS[Math.min(attempt, RETRY_BACKOFF_MS.length - 1)]
BackoffMs(a) == RETRY_BACKOFF_MS[Min(a, Len(RETRY_BACKOFF_MS) - 1) + 1]

Decision(next, le) == [next |-> next, lastError |-> le]

\* a catch block that stops retrying one attempt early
CatchBlockOneFewer(e, a, mr) ==
    IF e.cls = "GroqError" /\ e.retriable /\ a < mr - 1
    THEN Decision("sleep", e)
    ELSE Decision("break", e)

\* a catch block that retries whatever the error says
CatchBlockAlways(e, a, mr) ==
    IF e.cls = "GroqError" /\ a < mr
    THEN Decision("sleep", e)
    ELSE Decision("break", e)

\* catch (e) { ... } of the loop body
CatchBlock(e, a, mr) ==
    IF e.cls = "GroqError" /\ e.retriable /\ a < mr
    THEN Decision("sleep", e)
    ELSE Decision("break", e)

\* the branch without its test for the last attempt
HttpErrorBranchNoLastTest(status, details, a, mr) ==
    LET err == ConstructedAt(classifyHttpError(status, details), a)
    IN  IF ~err.retriable
        THEN CatchBlock(err, a, mr)
        ELSE Decision("sleep", err)

\* if (!res.ok) { ... } of the loop body; its throw lands in the catch block
HttpErrorBranch(status, details, a, mr) ==
    LET err == ConstructedAt(classifyHttpError(status, details), a)
    IN  IF ~err.retriable \/ a = mr
        THEN CatchBlock(err, a, mr)
        ELSE Decision("sleep", err)

\* a loop test that runs one attempt too many
LoopTestOneMore(a, mr) == a <= mr + 1

\* attempt <= maxRetries of the for statement
LoopTest(a, mr) == a <= mr

\* the last error thrown as it is, classified or not
AfterLoopRethrow(le) == le

\* the statements after the loop
AfterLoop(le) == IF le.cls = "GroqError" THEN le ELSE UnknownError(le)

(***************************************************************************)
(* Results of the three functions.                                         *)
(***************************************************************************)
\* a response rebuilt without its choices instead of data itself
ReturnedStripped(d) ==
    [kind |-> "returned", data |-> Body(d.shape, <<>>), text |-> <<>>, err |-> Undefined]

Pending          == [kind |-> "pending",  data |-> NoData, text |-> <<>>, err |-> Undefined]
Returned(d)      == [kind |-> "returned", data |-> d,      text |-> <<>>, err |-> Undefined]
ReturnedText(t)  == [kind |-> "returned", data |-> NoData, text |-> t,    err |-> Undefined]
Thrown(e)        == [kind |-> "thrown",   data |-> NoData, text |-> <<>>, err |-> e]

\* completion.choices?.[0]?.message?.content ?? ""
ContentText(data) ==
    IF data.choices = <<>> \/ data.choices[1].content.isNull
    THEN <<>>
    ELSE data.choices[1].content.text

\* generateGroqResponse with the emptiness test made after trimming
generateAfterTrimming(cr) ==
    IF cr.kind = "thrown" THEN cr
    ELSE LET text == ContentText(cr.data)
         IN  IF Trim(text) = <<>> THEN Thrown(EmptyResponseError)
             ELSE ReturnedText(Trim(text))

\* generateGroqResponse after its await: lines 265-275
generateContinuation(cr) ==
    IF cr.kind = "thrown" THEN cr
    ELSE LET text == ContentText(cr.data)
         IN  IF text = <<>> THEN Thrown(EmptyResponseError)
             ELSE ReturnedText(Trim(text))

(***************************************************************************)
(* The replies of the POST handler.                                        *)
(***************************************************************************)
NoReply == [status |-> 0, field |-> "none", text |-> <<>>, error |-> Msg("", 0)]

ResponseReply(t) == [status |-> 200, field |-> "response", text |-> t, error |-> Msg("", 0)]

ErrorReply(status, m) == [status |-> status, field |-> "error", text |-> <<>>, error |-> m]

\* a catch that chooses the status by the retriable flag of the error
PostCatchByFlag(e) ==
    ErrorReply(IF e.cls = "GroqError" /\ e.retriable THEN 503 ELSE 500,
               IF e.cls \in {"GroqError", "Error"} THEN e.message
               ELSE Msg("Failed to generate response", 0))

\* catch (error) { ... } of POST
PostCatch(e) ==
    ErrorReply(IF e.cls = "GroqError" /\ e.type \in {"RATE_LIMIT", "TIMEOUT", "UPSTREAM"}
               THEN 503 ELSE 500,
               IF e.cls \in {"GroqError", "Error"} THEN e.message
               ELSE Msg("Failed to generate response", 0))

\* POST after await generateGroqResponse(prompt): lines 14-21 and the catch
PostContinuation(gr) ==
    IF gr.kind = "thrown" THEN PostCatch(gr.err)
    ELSE ResponseReply(Sanitize(gr.text))

(***************************************************************************)
(* State.                                                                  *)
(***************************************************************************)
VARIABLES
    env,          \* process.env.GROQ_API_KEY
    pc,           \* position of the call chain
    caller,       \* entry point of the chain: "POST", "generate" or "create"
    reqBody,      \* the body of the request given to POST
    options,      \* the options argument of createGroqChatCompletion
    maxRetries,   \* const maxRetries of createGroqChatCompletion
    timeoutMs,    \* const timeoutMs of createGroqChatCompletion
    apiKey,       \* const apiKey of createGroqChatCompletion
    attempt,      \* the loop variable
    lastError,    \* let lastError
    resStatus,    \* res.status of the response whose body is being read
    resBody,      \* const data: what res.json() of a success response resolved with
    timerArmed,   \* the setTimeout of fetchWithTimeout is pending
    elapsed,      \* timeoutMs has passed since the current attempt began
    calls,        \* number of fetch calls made by the current call
    sleeps,       \* the sleep(ms) calls made by the current call, in order
    authSeen,     \* the credentials carried by the attempts of the current call
    createResult, \* outcome of createGroqChatCompletion
    genResult,    \* outcome of generateGroqResponse
    reply,        \* the NextResponse of POST
    sanIn,        \* a text given to the post-processing step
    sanOut        \* the results of applying the step to it repeatedly

loopVars   == <<maxRetries, timeoutMs, apiKey, attempt, lastError>>
fetchVars  == <<resStatus, resBody, timerArmed, elapsed>>
ghostVars  == <<calls, sleeps, authSeen>>
resultVars == <<createResult, genResult, reply>>
sanVars    == <<sanIn, sanOut>>

vars == <<env, pc, caller, reqBody, options, loopVars, fetchVars, ghostVars, resultVars, sanVars>>

Callers == {"POST", "generate", "create"}

\* bodies of the inbound request: not JSON, no message, empty message, a message
RequestBodies == {"<unparseable>", "<no message>", "", "What is Bitcoin?"}

InFlight == {"fetching", "errorBody", "successBody"}

\* options?.x ?? DEFAULT_X
Option(given, value) == [given |-> given, value |-> value]
OrDefault(o, d) == IF o.given THEN o.value ELSE d

MaxRetriesOptions ==
    {Option(FALSE, 0)} \cup {Option(TRUE, v) : v \in -1..MaxRetriesBound}

TimeoutOptions == {Option(FALSE, 0), Option(TRUE, 5000)}

Options(mrOpt, tmOpt) == [maxRetries |-> mrOpt, timeoutMs |-> tmOpt]

NoOptions == Options(Option(FALSE, 0), Option(FALSE, 0))

\* the options given by the callers: either of the two fields, or none
OptionChoices ==
    {Options(m, NoOptions.timeoutMs) : m \in MaxRetriesOptions}
    \cup {Options(NoOptions.maxRetries, t) : t \in TimeoutOptions}

Init ==
    /\ env \in EnvValues
    /\ pc = "idle"
    /\ caller = "create"
    /\ reqBody = ""
    /\ options = NoOptions
    /\ maxRetries = DEFAULT_MAX_RETRIES
    /\ timeoutMs = DEFAULT_TIMEOUT_MS
    /\ apiKey = Unset
    /\ attempt = 0
    /\ lastError = Undefined
    /\ resStatus = NoStatus
    /\ resBody = NoData
    /\ timerArmed = FALSE
    /\ elapsed = FALSE
    /\ calls = 0
    /\ sleeps = <<>>
    /\ authSeen = {}
    /\ createResult = Pending
    /\ genResult = Pending
    /\ reply = NoReply
    /\ sanIn = <<>>
    /\ sanOut = <<>>

(***************************************************************************)
(* Steps shared by the actions.                                            *)
(***************************************************************************)
\* createGroqChatCompletion settles with cr; the awaiting callers continue
Settle(c, cr) ==
    /\ pc' = "done"
    /\ createResult' = cr
    /\ genResult' = IF c \in {"POST", "generate"} THEN generateContinuation(cr) ELSE Pending
    /\ reply' = IF c = "POST" THEN PostContinuation(generateContinuation(cr)) ELSE NoReply
    /\ timerArmed' = FALSE

\* an attempt that reads the credential from the environment again
StartFetchRereadsKey(a, key, callsBefore, authBefore) ==
    /\ pc' = "fetching"
    /\ attempt' = a
    /\ calls' = callsBefore + 1
    /\ authSeen' = authBefore \cup {env}
    /\ timerArmed' = TRUE
    /\ elapsed' = FALSE
    /\ resStatus' = NoStatus
    /\ resBody' = NoData
    /\ createResult' = Pending
    /\ genResult' = Pending
    /\ reply' = NoReply

\* fetchWithTimeout is called for loop index a: the timer is set, fetch is issued
StartFetch(a, key, callsBefore, authBefore) ==
    /\ pc' = "fetching"
    /\ attempt' = a
    /\ calls' = callsBefore + 1
    /\ authSeen' = authBefore \cup {key}
    /\ timerArmed' = TRUE
    /\ elapsed' = FALSE
    /\ resStatus' = NoStatus
    /\ resBody' = NoData
    /\ createResult' = Pending
    /\ genResult' = Pending
    /\ reply' = NoReply

\* the head of the for loop, reached with loop index a
LoopHead(c, a, mr, key, le, callsBefore, authBefore) ==
    IF LoopTest(a, mr)
    THEN StartFetch(a, key, callsBefore, authBefore)
    ELSE /\ Settle(c, Thrown(AfterLoop(le)))
         /\ attempt' = a
         /\ calls' = callsBefore
         /\ authSeen' = authBefore
         /\ elapsed' = FALSE
         /\ resStatus' = NoStatus
         /\ resBody' = NoData

\* createGroqChatCompletion from its first line to its first await
CallCreate(c, mrOpt, tmOpt) ==
    /\ caller' = c
    /\ options' = Options(mrOpt, tmOpt)
    /\ sleeps' = <<>>
    /\ lastError' = Undefined
    /\ UNCHANGED <<env, sanVars>>
    /\ IF KeyMissing(env)
       THEN /\ Settle(c, Thrown(getApiKeyError))
            /\ apiKey' = env
            /\ timeoutMs' = DEFAULT_TIMEOUT_MS
            /\ maxRetries' = DEFAULT_MAX_RETRIES
            /\ attempt' = 0
            /\ calls' = 0
            /\ authSeen' = {}
            /\ elapsed' = FALSE
            /\ resStatus' = NoStatus
            /\ resBody' = NoData
       ELSE /\ apiKey' = env
            /\ timeoutMs' = OrDefault(tmOpt, DEFAULT_TIMEOUT_MS)
            /\ maxRetries' = OrDefault(mrOpt, DEFAULT_MAX_RETRIES)
            /\ LoopHead(c, 0, OrDefault(mrOpt, DEFAULT_MAX_RETRIES), env, Undefined, 0, {})

\* a decision of the loop body is carried out: sleep, or break and throw
Decide(d) ==
    /\ lastError' = d.lastError
    /\ UNCHANGED <<env, caller, reqBody, options, maxRetries, timeoutMs, apiKey, attempt,
                   calls, authSeen, elapsed, sanVars>>
    /\ resStatus' = NoStatus
    /\ IF d.next = "sleep"
       THEN /\ pc' = "sleeping"
            /\ sleeps' = Append(sleeps, [after |-> attempt, ms |-> BackoffMs(attempt)])
            /\ timerArmed' = FALSE
            /\ UNCHANGED resultVars
       ELSE /\ Settle(caller, Thrown(AfterLoop(d.lastError)))
            /\ UNCHANGED sleeps

(***************************************************************************)
(* Entry points.                                                           *)
(***************************************************************************)
Idle == pc \in {"idle", "done"}

\* export async function POST(req)
POST(body) ==
    /\ Idle
    /\ reqBody' = body
    /\ IF body = "<unparseable>" \/ body = "<no message>" \/ body = ""
       THEN /\ pc' = "done"
            /\ caller' = "POST"
            /\ reply' = IF body = "<unparseable>"
                        THEN PostCatch(PlainError(Msg("Unexpected token in JSON", 0)))
                        ELSE ErrorReply(400, Msg("Message is required", 0))
            /\ createResult' = Pending
            /\ genResult' = Pending
            /\ lastError' = Undefined
            /\ attempt' = 0
            /\ calls' = 0
            /\ sleeps' = <<>>
            /\ authSeen' = {}
            /\ resStatus' = NoStatus
            /\ resBody' = NoData
            /\ timerArmed' = FALSE
            /\ elapsed' = FALSE
            /\ apiKey' = Unset
            /\ options' = NoOptions
            /\ timeoutMs' = DEFAULT_TIMEOUT_MS
            /\ maxRetries' = DEFAULT_MAX_RETRIES
            /\ UNCHANGED <<env, sanVars>>
       ELSE CallCreate("POST", NoOptions.maxRetries, NoOptions.timeoutMs)

\* export async function generateGroqResponse(prompt)
GenerateGroqResponse ==
    /\ Idle
    /\ reqBody' = ""
    /\ CallCreate("generate", NoOptions.maxRetries, NoOptions.timeoutMs)

\* export async function createGroqChatCompletion(request, options)
CreateGroqChatCompletion(mrOpt, tmOpt) ==
    /\ Idle
    /\ reqBody' = ""
    /\ CallCreate("create", mrOpt, tmOpt)

(***************************************************************************)
(* One attempt.                                                            *)
(***************************************************************************)
\* fetch resolves with the response headers; finally { clearTimeout }
FetchResponds(status) ==
    /\ pc = "fetching"
    /\ pc' = IF ResOk(status) THEN "successBody" ELSE "errorBody"
    /\ resStatus' = status
    /\ timerArmed' = FALSE
    /\ UNCHANGED resBody
    /\ UNCHANGED <<env, caller, reqBody, options, loopVars, elapsed, ghostVars, resultVars,
                   sanVars>>

\* fetch rejects for a reason other than the abort
FetchFails ==
    /\ pc = "fetching"
    /\ UNCHANGED resBody
    /\ Decide(CatchBlock(ConstructedAt(NetworkError, attempt), attempt, maxRetries))

\* a timer whose callback aborts nothing
DeadlineElapsesNoAbort ==
    /\ pc \in InFlight
    /\ ~elapsed
    /\ elapsed' = TRUE
    /\ UNCHANGED <<env, pc, caller, reqBody, options, loopVars, resStatus, resBody,
                   timerArmed, ghostVars, resultVars, sanVars>>

\* timeoutMs passes during an attempt: a pending timer aborts the fetch
DeadlineElapses ==
    /\ pc \in InFlight
    /\ ~elapsed
    /\ UNCHANGED resBody
    /\ IF timerArmed
       THEN /\ Decide(CatchBlock(ConstructedAt(TimeoutError(timeoutMs), attempt),
                                 attempt, maxRetries))
       ELSE /\ elapsed' = TRUE
            /\ UNCHANGED <<env, pc, caller, reqBody, options, loopVars, resStatus,
                           timerArmed, ghostVars, resultVars, sanVars>>

\* res.json().catch(() => null) of an error response settles
ErrorBodyRead(details) ==
    /\ pc = "errorBody"
    /\ UNCHANGED resBody
    /\ Decide(HttpErrorBranch(resStatus, details, attempt, maxRetries))

\* res.json() of a success response rejects
SuccessBodyUnreadable ==
    /\ pc = "successBody"
    /\ UNCHANGED resBody
    /\ Decide(CatchBlock(PlainError(Msg("Unexpected end of JSON input", 0)),
                         attempt, maxRetries))

\* res.json() of a success response resolves with data
SuccessBodyRead(data) ==
    /\ pc = "successBody"
    /\ resBody' = data
    /\ IF InvalidShape(data)
       THEN Decide(CatchBlock(ConstructedAt(InvalidShapeError, attempt), attempt, maxRetries))
       ELSE /\ Settle(caller, Returned(data))
            /\ resStatus' = NoStatus
            /\ UNCHANGED <<env, caller, reqBody, options, loopVars, elapsed, ghostVars,
                           sanVars>>

\* the sleep of the backoff resolves; continue runs attempt++ and the loop test
SleepEnds ==
    /\ pc = "sleeping"
    /\ UNCHANGED <<env, caller, reqBody, options, maxRetries, timeoutMs, apiKey, lastError,
                   sleeps, sanVars>>
    /\ LoopHead(caller, attempt + 1, maxRetries, apiKey, lastError, calls, authSeen)

\* process.env.GROQ_API_KEY is changed
ConfigChanges(v) ==
    /\ v # env
    /\ env' = v
    /\ UNCHANGED <<pc, caller, reqBody, options, loopVars, fetchVars, ghostVars, resultVars,
                   sanVars>>

Next ==
    \/ \E body \in RequestBodies : POST(body)
    \/ GenerateGroqResponse
    \/ \E o \in OptionChoices : CreateGroqChatCompletion(o.maxRetries, o.timeoutMs)
    \/ \E status \in OkStatuses \cup ErrStatuses : FetchResponds(status)
    \/ FetchFails
    \/ DeadlineElapses
    \/ \E details \in {"null", "body"} : ErrorBodyRead(details)
    \/ SuccessBodyUnreadable
    \/ \E data \in SuccessBodies : SuccessBodyRead(data)
    \/ SleepEnds
    \/ \E v \in EnvValues : ConfigChanges(v)

Spec == Init /\ [][Next]_vars

(***************************************************************************)
(* The same steps when timers run and started answers complete: the timer  *)
(* of fetchWithTimeout fires unless it was cleared, a body whose headers   *)
(* arrived is read to its end, and the timer of sleep fires.  Nothing is   *)
(* assumed about the headers: the upstream may stay silent.                *)
(***************************************************************************)
SpecFair ==
    /\ Spec
    /\ WF_vars(DeadlineElapses)
    /\ WF_vars(\E details \in {"null", "body"} : ErrorBodyRead(details))
    /\ WF_vars(SuccessBodyUnreadable \/ \E data \in SuccessBodies : SuccessBodyRead(data))
    /\ WF_vars(SleepEnds)

(***************************************************************************)
(* The post-processing step of POST as a function of its input: the step   *)
(* is applied to a text and then to its own result.                        *)
(***************************************************************************)
InitSanitize ==
    /\ env = Unset
    /\ pc = "idle"
    /\ caller = "create"
    /\ reqBody = ""
    /\ options = NoOptions
    /\ maxRetries = DEFAULT_MAX_RETRIES
    /\ timeoutMs = DEFAULT_TIMEOUT_MS
    /\ apiKey = Unset
    /\ attempt = 0
    /\ lastError = Undefined
    /\ resStatus = NoStatus
    /\ resBody = NoData
    /\ timerArmed = FALSE
    /\ elapsed = FALSE
    /\ calls = 0
    /\ sleeps = <<>>
    /\ authSeen = {}
    /\ createResult = Pending
    /\ genResult = Pending
    /\ reply = NoReply
    /\ sanIn \in TextsUpTo(MaxTextLen)
    /\ sanOut = <<>>

\* response.replace(...).replace(...).trim() applied to the previous text
ApplySanitize ==
    /\ Len(sanOut) < 2
    /\ sanOut' = Append(sanOut, Sanitize(IF sanOut = <<>> THEN sanIn ELSE sanOut[Len(sanOut)]))
    /\ UNCHANGED <<env, pc, caller, reqBody, options, loopVars, fetchVars, ghostVars,
                   resultVars, sanIn>>

NextSanitize == ApplySanitize

SpecSanitize == InitSanitize /\ [][NextSanitize]_vars


(***************************************************************************)
(* Properties.                                                             *)
(***************************************************************************)
\* a call of createGroqChatCompletion has been made and has ended
CreateEnded == pc = "done" /\ createResult.kind # "pending"

\* a call of createGroqChatCompletion has been made
CreateCalled == pc \in InFlight \cup {"sleeping"} \/ CreateEnded

CreateFailed == CreateEnded /\ createResult.kind = "thrown"

\* C1: one call makes at most maxRetries + 1 network attempts; with
\* maxRetries = 2, a call that fails with a retriable error (every attempt
\* ended in a retriable failure) has made exactly 3 attempts and surfaces
\* the error constructed by the 3rd attempt (loop index 2).
C1_RetryBound ==
    /\ (CreateCalled /\ maxRetries >= 0) => calls <= maxRetries + 1
    /\ (CreateFailed /\ maxRetries = 2 /\ createResult.err.retriable)
           => /\ calls = 3
              /\ createResult.err.at = 2
              /\ createResult.err = lastError

C1_Witness ==
    /\ CreateFailed
    /\ maxRetries = 2
    /\ calls = 3
    /\ createResult.err.retriable
    /\ createResult.err.type = "RATE_LIMIT"
    /\ createResult.err.at = 2

\* C2: a GroqError classified non-retriable by an attempt (CONFIG from 401/403,
\* UPSTREAM from a non-5xx status, INVALID_RESPONSE from a success body without
\* a choices array) ends the call at that attempt whatever budget remains: it
\* is the error surfaced, the attempt that classified it is the last one made,
\* and no sleep follows it.
C2_NonRetriableEndsCall ==
    (lastError.cls = "GroqError" /\ ~lastError.retriable)
        => /\ pc = "done"
           /\ createResult = Thrown(lastError)
           /\ lastError.type \in {"CONFIG", "UPSTREAM", "INVALID_RESPONSE"}
           /\ calls = lastError.at + 1
           /\ attempt = lastError.at
           /\ Len(sleeps) = lastError.at

C2_Witness ==
    /\ CreateFailed
    /\ createResult.err.type = "CONFIG"
    /\ createResult.err.status = 401
    /\ maxRetries = 2
    /\ calls = 1
    /\ sleeps = <<>>

\* C3: a call started with no credential (GROQ_API_KEY unset or empty) fails
\* with CONFIG, retriable = false, without any network attempt and without any
\* sleep, whatever options.maxRetries is; generateGroqResponse fails with the
\* same error.
C3_MissingCredential ==
    (CreateCalled /\ apiKey \in {Unset, ""})
        => /\ CreateFailed
           /\ createResult.err.type = "CONFIG"
           /\ createResult.err.retriable = FALSE
           /\ createResult.err.cls = "GroqError"
           /\ calls = 0
           /\ sleeps = <<>>
           /\ caller \in {"generate", "POST"} => genResult = createResult

C3_Witness ==
    /\ CreateFailed
    /\ apiKey = ""
    /\ options.maxRetries = Option(TRUE, MaxRetriesBound)
    /\ createResult.err.type = "CONFIG"
    /\ calls = 0

\* C4: sleeps happen only between attempts: while an attempt is in progress and
\* when a call that made an attempt has ended, the number of sleeps is the
\* number of attempts minus one; during a sleep an attempt remains to be made;
\* the i-th sleep follows the attempt with loop index i - 1, so each failed
\* attempt is followed by at most one sleep.
C4_SleepsBetweenAttempts ==
    /\ pc \in InFlight => Len(sleeps) = calls - 1
    /\ pc = "sleeping" => (Len(sleeps) = calls /\ attempt < maxRetries)
    /\ (CreateEnded /\ calls >= 1) => Len(sleeps) = calls - 1
    /\ \A i \in 1..Len(sleeps) : sleeps[i].after = i - 1
    /\ CreateCalled => attempt = IF calls = 0 THEN 0 ELSE calls - 1

C4_Witness ==
    /\ CreateEnded
    /\ createResult.kind = "returned"
    /\ calls = 3
    /\ Len(sleeps) = 2

\* C5: the sleep taken after a retriable failure of the attempt with loop
\* index i lasts 250 ms for i = 0, 500 ms for i = 1 and 1000 ms for i >= 2,
\* for thrown errors (TIMEOUT, NETWORK) and for HTTP statuses (429, 5xx).
C5_BackoffSchedule ==
    /\ \A i \in 1..Len(sleeps) :
          sleeps[i].ms = IF sleeps[i].after = 0 THEN 250
                         ELSE IF sleeps[i].after = 1 THEN 500
                         ELSE 1000
    /\ pc = "sleeping"
          => /\ sleeps # <<>>
             /\ sleeps[Len(sleeps)].after = attempt
             /\ lastError.at = attempt
             /\ lastError.retriable

C5_Witness ==
    /\ pc = "sleeping"
    /\ attempt = 3
    /\ lastError.type = "TIMEOUT"
    /\ sleeps[3].ms = 1000
    /\ sleeps[4].ms = 1000

\* the classification table of the specification
StatusTable(st) ==
    IF st \in {401, 403} THEN <<"CONFIG", FALSE>>
    ELSE IF st = 429 THEN <<"RATE_LIMIT", TRUE>>
    ELSE IF st \in 500..599 THEN <<"UPSTREAM", TRUE>>
    ELSE <<"UPSTREAM", FALSE>>

\* C6: the error classified from a non-success status carries the kind and the
\* retriable flag of the table for that status, whether the diagnostic body was
\* parsed or not (details null); every non-success response is classified.
C6_Classification ==
    /\ \A e \in {lastError, createResult.err} :
          (e.cls = "GroqError" /\ e.status # NoStatus)
              => /\ <<e.type, e.retriable>> = StatusTable(e.status)
                 /\ e.details \in {"null", "body"}
    /\ \A st \in ErrStatuses, d \in {"null", "body"} :
          LET e == classifyHttpError(st, d)
          IN  /\ <<e.type, e.retriable>> = StatusTable(st)
              /\ e.status = st
              /\ e.details = d

C6_Witness ==
    /\ pc = "sleeping"
    /\ lastError.status = 503
    /\ lastError.type = "UPSTREAM"
    /\ lastError.retriable
    /\ lastError.details = "null"

\* C7: no attempt remains in progress once timeoutMs has passed since it
\* began, in any phase of the attempt (waiting for the headers, reading the
\* body of the response).
C7_DeadlineBoundsAttempt == ~(elapsed /\ pc \in InFlight)

\* C8: generateGroqResponse never returns an empty string.
C8_NeverEmptyAnswer ==
    genResult.kind = "returned" => genResult.text # <<>>

BitcoinCompletion == Body("completion", <<[content |-> TextContent(BitcoinContent)]>>)

BitcoinRequest ==
    /\ caller = "POST"
    /\ reqBody = "What is Bitcoin?"
    /\ pc = "done"
    /\ createResult = Returned(BitcoinCompletion)

\* C9 as stated: for the prompt "What is Bitcoin?" and the upstream content
\* "Bitcoin is *digital* **gold**" the endpoint replies with the text
\* "Bitcoin is <bullet>digital gold".
C9_EndToEndAsStated ==
    BitcoinRequest => reply = ResponseReply(BitcoinSpecText)

\* C9 amended: for the prompt "What is Bitcoin?" and the upstream content
\* "Bitcoin is *digital* **gold**" the endpoint replies with the text
\* "Bitcoin is <bullet>digital<bullet> gold".
C9_EndToEnd ==
    BitcoinRequest => reply = ResponseReply(BitcoinCodeText)

C9_Witness ==
    /\ BitcoinRequest
    /\ genResult = ReturnedText(BitcoinContent)
    /\ reply.status = 200
    /\ reply.text = BitcoinCodeText

\* C10: the post-processing step is idempotent on its own outputs: applied to
\* sanitize(t) it gives sanitize(t) again, for every text t over the alphabet.
C10_SanitizeIdempotent ==
    Len(sanOut) = 2 => sanOut[2] = sanOut[1]

C10_Witness ==
    /\ sanIn = <<STAR, SPACE, STAR>>
    /\ sanOut = << <<BULLET, SPACE, BULLET>>, <<BULLET, SPACE, BULLET>> >>


\* POST has replied after generateGroqResponse threw
PostFailed == caller = "POST" /\ pc = "done" /\ genResult.kind = "thrown"

\* C11: the endpoint answers 503 only for retriable failures: a reply with
\* status 503 comes from an error with retriable = true, and a failure whose
\* error has retriable = false is answered with 500.
C11_OnlyRetriableGets503 ==
    PostFailed
        => /\ reply.status = 503 => genResult.err.retriable
           /\ ~genResult.err.retriable => reply.status = 500

\* C12: the reply of POST is a function of the outcome of the request: 400
\* without calling the orchestrator when the message is missing or empty; the
\* sanitized answer when the orchestrator returns; 503 when it fails with
\* RATE_LIMIT, TIMEOUT or UPSTREAM; 500 for every other failure, an
\* unparseable request body included; an error reply carries the message of
\* the underlying error.
C12_ReplyByOutcome ==
    (caller = "POST" /\ pc = "done")
        => /\ reqBody \in {"<no message>", ""}
                => /\ reply = ErrorReply(400, Msg("Message is required", 0))
                   /\ createResult = Pending /\ genResult = Pending
                   /\ calls = 0
           /\ reqBody = "<unparseable>"
                => /\ reply.status = 500 /\ reply.field = "error"
                   /\ createResult = Pending /\ calls = 0
           /\ genResult.kind = "returned"
                => /\ reply.status = 200 /\ reply.field = "response"
                   /\ reply.text = Sanitize(genResult.text)
           /\ genResult.kind = "thrown"
                => /\ reply.field = "error"
                   /\ reply.error = genResult.err.message
                   /\ reply.status =
                         IF genResult.err.type \in {"RATE_LIMIT", "TIMEOUT", "UPSTREAM"}
                         THEN 503 ELSE 500
                   /\ genResult.err.type \in ErrorTypes

C12_Witness ==
    /\ PostFailed
    /\ genResult.err.type = "NETWORK"
    /\ reply.status = 500
    /\ reply.error = Msg("fetch failed", 0)


\* the retriable flag that the taxonomy gives to a kind and a status
RetriableOf(type, status) ==
    \/ type \in {"TIMEOUT", "NETWORK", "RATE_LIMIT"}
    \/ type = "UPSTREAM" /\ status \in 500..599

\* the classified errors held by the program
HeldErrors == {e \in {lastError, createResult.err, genResult.err} : e.cls = "GroqError"}

\* C13: every classified error held by the program has the retriable flag
\* that its kind and status determine: true for TIMEOUT, NETWORK, RATE_LIMIT
\* and UPSTREAM with a status in 500..599, false for CONFIG, INVALID_RESPONSE,
\* UNKNOWN and UPSTREAM with any other status.
C13_RetriableByKindAndStatus ==
    \A e \in HeldErrors :
        /\ e.type \in ErrorTypes
        /\ e.retriable = RetriableOf(e.type, e.status)

C13_Witness ==
    /\ CreateFailed
    /\ attempt = 1
    /\ createResult.err.type = "INVALID_RESPONSE" /\ ~createResult.err.retriable
    /\ createResult.err.details = "data"
    /\ createResult.err.status = NoStatus

\* C14: a failing call of createGroqChatCompletion surfaces a GroqError; an
\* error that is no GroqError (the body of a success response cannot be
\* parsed) ends the call at its attempt, attempts remaining or not, and is
\* surfaced wrapped as UNKNOWN, retriable = false, with its message.
C14_EveryFailureClassified ==
    /\ CreateFailed
          => /\ createResult.err.cls = "GroqError"
             /\ createResult.err.type \in ErrorTypes
    /\ CreateEnded => createResult.kind \in {"returned", "thrown"}
    /\ lastError.cls = "Error"
          => /\ CreateFailed
             /\ createResult.err.type = "UNKNOWN"
             /\ createResult.err.retriable = FALSE
             /\ createResult.err.message = lastError.message
             /\ calls = attempt + 1
             /\ Len(sleeps) = attempt

C14_Witness ==
    /\ CreateFailed
    /\ lastError.cls = "Error"
    /\ attempt = 0
    /\ maxRetries = 2
    /\ createResult.err.type = "UNKNOWN"


\* a step that starts a call of createGroqChatCompletion
CreateStarts == Idle /\ env' = env /\ CreateCalled' /\ vars' # vars

\* every attempt made so far by the call carried the credential read at its start
OneCredentialPerCall ==
    CreateCalled => authSeen = IF calls = 0 THEN {} ELSE {apiKey}

\* C15: the credential is read once, when a call starts, from the
\* configuration of that moment (no value of an earlier call is reused), and
\* every attempt of the call carries that value, also after the configuration
\* changed during the call; a call started with the credential removed fails
\* with CONFIG.
C15_CredentialReadPerCall ==
    /\ []OneCredentialPerCall
    /\ [][CreateStarts
            => /\ apiKey' = env
               /\ (env \in {Unset, ""}) => (createResult'.kind = "thrown"
                                             /\ createResult'.err.type = "CONFIG")
               /\ (env \notin {Unset, ""}) => authSeen' \subseteq {env}]_vars

C15_Witness ==
    /\ pc = "fetching"
    /\ calls = 3
    /\ apiKey = "key1"
    /\ env = "key2"
    /\ authSeen = {"key1"}

\* C16: a call that returns has returned the parsed body of the success
\* response of its last attempt, unchanged, whether earlier attempts failed or
\* not: no error is surfaced, no attempt and no sleep follows the attempt that
\* succeeded, and the callers see no error of an earlier attempt.
C16_SuccessReturnsData ==
    createResult.kind = "returned"
        => /\ pc = "done"
           /\ createResult.data = resBody
           /\ resBody.shape = "completion"
           /\ createResult.err = Undefined
           /\ attempt = calls - 1
           /\ Len(sleeps) = calls - 1
           /\ genResult.kind = "thrown" => genResult.err = EmptyResponseError
           /\ caller = "POST" => reply.status \in {200, 500}

C16_Witness ==
    /\ createResult.kind = "returned"
    /\ createResult.data = BitcoinCompletion
    /\ calls = 3
    /\ lastError.type = "UPSTREAM" /\ lastError.retriable /\ lastError.at = 1
    /\ caller = "POST"
    /\ reply.status = 200


\* a call of createGroqChatCompletion is in progress
CreateRunning == pc \in InFlight \cup {"sleeping"}

C18_RetriableMeansExhausted ==
    (CreateFailed /\ maxRetries >= 0)
        => /\ createResult.err.retriable => calls = maxRetries + 1
           /\ calls < maxRetries + 1 => ~createResult.err.retriable

C18_Witness ==
    /\ CreateFailed
    /\ maxRetries = 0
    /\ calls = 1
    /\ createResult.err.retriable
    /\ createResult.err.type = "NETWORK"

\* the text holds no asterisk
NoStar(t) == \A i \in 1..Len(t) : t[i] # STAR

\* C19: the post-processing step leaves no asterisk: whatever text it is given,
\* its result holds no '*'.
C19_NoAsterisk ==
    \A i \in 1..Len(sanOut) : NoStar(sanOut[i])

C19_Witness ==
    /\ sanIn = <<STAR, STAR, STAR>>
    /\ sanOut = << <<BULLET>> >>

\* C20: with a configured credential, a call with maxRetries >= 0 has made an
\* attempt when it ends, and a call with a negative maxRetries ends without
\* any attempt, failing with UNKNOWN, retriable = false.
C20_AttemptsByMaxRetries ==
    (CreateEnded /\ apiKey \in {"key1", "key2"})
        => /\ maxRetries >= 0 => calls >= 1
           /\ maxRetries < 0
                => /\ calls = 0
                   /\ sleeps = <<>>
                   /\ createResult.kind = "thrown"
                   /\ createResult.err.type = "UNKNOWN"
                   /\ createResult.err.retriable = FALSE
                   /\ createResult.err.message = Msg("Unknown Groq error", 0)

C20_Witness ==
    /\ CreateFailed
    /\ apiKey = "key1"
    /\ maxRetries = -1
    /\ calls = 0
    /\ createResult.err.type = "UNKNOWN"

=============================================================================
